---- MODULE Spec2Model ----
(***************************************************************************)
(* A model of the Hack assembler in src/src/main.rs.                       *)
(*                                                                         *)
(* Text is a sequence of one-character strings.  Option<T> is a sequence   *)
(* of length 0 (None) or 1 (Some).  A call that may panic returns Panic    *)
(* (the empty sequence) or Ok(v) (a one-element sequence).                 *)
(***************************************************************************)
EXTENDS Integers, Sequences, FiniteSets, TLC

VARIABLES
    contents,             \* main: the source text, as a sequence of lines
    pc,                   \* main: position in main
    parsed_lines,         \* main: result of parse_each_line
    symbol_table,         \* main / first_pass: the symbol table
    last_ram_address,     \* first_pass: last RAM address handed out
    translated_contents,  \* main: result of second_pass
    output_file,          \* the output file: None, or Some(bytes written)
    overflow_checks,      \* TRUE: arithmetic overflow panics; FALSE: it wraps
    fn_pc,                \* unit harness: position
    fn_in,                \* unit harness: input of the function under study
    fn_out,               \* unit harness: result of the first call
    fn_out2               \* unit harness: result of the second call

vars == <<contents, pc, parsed_lines, symbol_table, last_ram_address,
          translated_contents, output_file, overflow_checks,
          fn_pc, fn_in, fn_out, fn_out2>>

main_vars == <<contents, pc, parsed_lines, symbol_table, last_ram_address,
               translated_contents, output_file>>

fn_vars == <<fn_pc, fn_in, fn_out, fn_out2>>

----------------------------------------------------------------------------
(* Option, Result and text helpers                                         *)

None == <<>>

Some(x) == <<x>>

Panic == <<>>

Ok(x) == <<x>>

Unwrap(o) == o[1]

Min(a, b) == IF a < b THEN a ELSE b

\* char::is_numeric, on the characters used here
is_numeric(c) == c \in {"0", "1", "2", "3", "4", "5", "6", "7", "8", "9"}

\* char::is_whitespace, on the characters used here
is_whitespace(c) == c \in {" ", "\t"}

\* s.chars().take(n)
Take(s, n) == SubSeq(s, 1, Min(n, Len(s)))

\* s.chars().skip(k).take(n)
SkipTake(s, k, n) == SubSeq(s, k + 1, Min(k + n, Len(s)))

\* s.chars().skip(k)
Skip(s, k) == SubSeq(s, k + 1, Len(s))

\* s.chars().nth(k): None past the end
Nth(s, k) == IF k >= 0 /\ k < Len(s) THEN Some(s[k + 1]) ELSE None

\* s.chars().position(|x| x in cs): zero-based index of the first match
Position(s, cs) ==
    IF \E k \in 1..Len(s) : s[k] \in cs
    THEN Some((CHOOSE k \in 1..Len(s) :
                  s[k] \in cs /\ \A j \in 1..(k - 1) : s[j] \notin cs) - 1)
    ELSE None

\* s.contains(|x| x in cs)
ContainsAny(s, cs) == \E k \in 1..Len(s) : s[k] \in cs

\* s.contains("//")
ContainsMarker(s) == \E k \in 1..(Len(s) - 1) : s[k] = "/" /\ s[k + 1] = "/"

\* s.starts_with("//")
StartsWithMarker(s) == Len(s) >= 2 /\ s[1] = "/" /\ s[2] = "/"

RECURSIVE TrimStart(_)
TrimStart(s) ==
    IF s # <<>> /\ is_whitespace(Head(s)) THEN TrimStart(Tail(s)) ELSE s

RECURSIVE TrimEnd(_)
TrimEnd(s) ==
    IF s # <<>> /\ is_whitespace(s[Len(s)])
    THEN TrimEnd(SubSeq(s, 1, Len(s) - 1))
    ELSE s

\* str::trim
trim(s) == TrimEnd(TrimStart(s))

NotWhitespace(c) == ~is_whitespace(c)

\* s.split_whitespace().collect::<String>()
split_whitespace(s) == SelectSeq(s, NotWhitespace)

----------------------------------------------------------------------------
(* preprocess_line                                                         *)

\* The mid-line comment branch: the text kept in front of the comment.
\* comment_start_index - 1 is a usize subtraction: at index 0 it panics
\* when overflow checks are on and wraps to usize::MAX otherwise, and then
\* take() keeps the whole line.
line_nocomment(line_trimmed, oc) ==
    LET comment_start_index == Unwrap(Position(line_trimmed, {"/"}))
    IN  IF comment_start_index = 0
        THEN IF oc THEN Panic ELSE Ok(line_trimmed)
        ELSE Ok(Take(line_trimmed, comment_start_index - 1))

preprocess_line(line, oc) ==
    LET line_trimmed == trim(line)
    IN  IF ContainsMarker(line_trimmed)
        THEN IF StartsWithMarker(line_trimmed)
             THEN Ok(None)
             ELSE LET kept == line_nocomment(line_trimmed, oc)
                  IN  IF kept = Panic
                      THEN Panic
                      ELSE Ok(Some(split_whitespace(Unwrap(kept))))
        ELSE LET potential_instruction == split_whitespace(line)
             IN  IF potential_instruction = <<>>
                 THEN Ok(None)
                 ELSE Ok(Some(potential_instruction))

----------------------------------------------------------------------------
(* parse_line                                                              *)

ParsedLine(ct, sym, des, com, jmp, ln) ==
    [command_type |-> ct, symbol |-> sym, dest |-> des, comp |-> com,
     jump |-> jmp, line_number |-> ln]

\* The locals of parse_line before the loop; brk: the loop has hit a break,
\* panicked: an unwrap or a subtraction has panicked.
ParseStart ==
    [ct |-> "ACommand", sym |-> None, des |-> None, temp_comp |-> <<>>,
     jmp |-> None, brk |-> FALSE, panicked |-> FALSE]

\* temp_comp.push(o.unwrap())
PushUnwrap(st, o) ==
    IF o = None
    THEN [st EXCEPT !.panicked = TRUE]
    ELSE [st EXCEPT !.temp_comp = Append(st.temp_comp, Unwrap(o))]

\* temp_comp.push_str(s)
PushStr(st, s) == [st EXCEPT !.temp_comp = st.temp_comp \o s]

\* char == '@'
ParseAt(line, st) ==
    IF Nth(line, 1) = None
    THEN [st EXCEPT !.panicked = TRUE]
    ELSE [st EXCEPT !.ct = "ACommand", !.sym = Some(Skip(line, 1)),
                    !.brk = TRUE]

RECURSIVE TakeWhileNot(_, _)
TakeWhileNot(s, c) ==
    IF s = <<>> \/ Head(s) = c THEN <<>> ELSE <<Head(s)>> \o TakeWhileNot(Tail(s), c)

\* char == '('
ParseParen(line, st) ==
    [st EXCEPT !.ct = "LCommand",
               !.sym = Some(TakeWhileNot(Skip(line, 1), ")")),
               !.brk = TRUE]

\* char == '='
ParseEq(line, st) ==
    LET pos_of_eq == Unwrap(Position(line, {"="}))
    IN  PushUnwrap([st EXCEPT !.des = Some(Take(line, pos_of_eq))],
                   Nth(line, pos_of_eq + 1))

\* char == '+' || char == '&' || char == '|'
ParseBinary(line, st, oc) ==
    LET pos_of_op == Unwrap(Position(line, {"+", "&", "|"}))
    IN  IF ContainsAny(line, {"="})
        THEN PushStr(st, SkipTake(line, pos_of_op, 2))
        ELSE IF pos_of_op = 0
             THEN IF oc THEN [st EXCEPT !.panicked = TRUE] ELSE st
             ELSE PushStr(st, SkipTake(line, pos_of_op - 1, 3))

\* char == '-' || char == '!'
ParseMinusNot(line, char, st) ==
    LET pos_of_op == Unwrap(Position(line, {"-", "!"}))
    IN  IF pos_of_op # 0 /\ char = "-"
        THEN IF Nth(line, pos_of_op - 1) = Some("=")
             THEN PushUnwrap(st, Nth(line, pos_of_op + 1))
             ELSE IF ContainsAny(line, {"="})
                  THEN PushStr(st, SkipTake(line, pos_of_op, 2))
                  ELSE PushStr(st, SkipTake(line, pos_of_op - 1, 3))
        ELSE IF pos_of_op = 0
             THEN PushStr(st, Take(line, 2))
             ELSE IF char = "!"
                  THEN PushUnwrap(st, Nth(line, pos_of_op + 1))
                  ELSE st

\* The operators whose presence tells the ';' branch that the computation
\* has been captured already.
SemicolonOps == {"+", "-", "&", "|"}

\* char == ';'
ParseSemicolon(line, st) ==
    LET i == Unwrap(Position(line, {";"}))
        withJump(s) == [s EXCEPT !.jmp = Some(SkipTake(line, i + 1, 3))]
    IN  IF ContainsAny(line, {"="})
        THEN withJump(st)
        ELSE IF ContainsAny(line, SemicolonOps)
             THEN withJump(st)
             ELSE IF i = 0
                  THEN [st EXCEPT !.panicked = TRUE]
                  ELSE withJump(PushUnwrap(st, Nth(line, i - 1)))

\* One iteration of the loop over the characters of the line.
ParseChar(line, char, st, oc) ==
    IF char = "@" THEN ParseAt(line, st)
    ELSE IF char = "(" THEN ParseParen(line, st)
    ELSE LET c == [st EXCEPT !.ct = "CCommand"]
         IN  IF char = "=" THEN ParseEq(line, c)
             ELSE IF char \in {"+", "&", "|"} THEN ParseBinary(line, c, oc)
             ELSE IF char \in {"-", "!"} THEN ParseMinusNot(line, char, c)
             ELSE IF char = ";" THEN ParseSemicolon(line, c)
             ELSE c

RECURSIVE ParseLoop(_, _, _, _)
ParseLoop(line, k, st, oc) ==
    IF k > Len(line) \/ st.brk \/ st.panicked
    THEN st
    ELSE ParseLoop(line, k + 1, ParseChar(line, line[k], st, oc), oc)

parse_line(line, line_number, oc) ==
    LET st == ParseLoop(line, 1, ParseStart, oc)
        com == IF st.temp_comp # <<>> THEN Some(st.temp_comp) ELSE None
    IN  IF st.panicked
        THEN Panic
        ELSE Ok(ParsedLine(st.ct, st.sym, st.des, com, st.jmp, line_number))

----------------------------------------------------------------------------
(* translate                                                               *)

\* The fixed tables of translate, as lists of <<key, bits>>.
dest_map ==
    <<<<None, <<"0", "0", "0">>>>,
      <<Some(<<"M">>), <<"0", "0", "1">>>>,
      <<Some(<<"D">>), <<"0", "1", "0">>>>,
      <<Some(<<"M", "D">>), <<"0", "1", "1">>>>,
      <<Some(<<"A">>), <<"1", "0", "0">>>>,
      <<Some(<<"A", "M">>), <<"1", "0", "1">>>>,
      <<Some(<<"A", "D">>), <<"1", "1", "0">>>>,
      <<Some(<<"A", "M", "D">>), <<"1", "1", "1">>>>>>

jump_map ==
    <<<<None, <<"0", "0", "0">>>>,
      <<Some(<<"J", "G", "T">>), <<"0", "0", "1">>>>,
      <<Some(<<"J", "E", "Q">>), <<"0", "1", "0">>>>,
      <<Some(<<"J", "G", "E">>), <<"0", "1", "1">>>>,
      <<Some(<<"J", "L", "T">>), <<"1", "0", "0">>>>,
      <<Some(<<"J", "N", "E">>), <<"1", "0", "1">>>>,
      <<Some(<<"J", "L", "E">>), <<"1", "1", "0">>>>,
      <<Some(<<"J", "M", "P">>), <<"1", "1", "1">>>>>>

comp_map ==
    <<<<Some(<<"0">>), <<"0", "1", "0", "1", "0", "1", "0">>>>,
      <<Some(<<"1">>), <<"0", "1", "1", "1", "1", "1", "1">>>>,
      <<Some(<<"-", "1">>), <<"0", "1", "1", "1", "0", "1", "0">>>>,
      <<Some(<<"D">>), <<"0", "0", "0", "1", "1", "0", "0">>>>,
      <<Some(<<"A">>), <<"0", "1", "1", "0", "0", "0", "0">>>>,
      <<Some(<<"M">>), <<"1", "1", "1", "0", "0", "0", "0">>>>,
      <<Some(<<"!", "D">>), <<"0", "0", "0", "1", "1", "0", "1">>>>,
      <<Some(<<"!", "A">>), <<"0", "1", "1", "0", "0", "0", "1">>>>,
      <<Some(<<"!", "M">>), <<"1", "1", "1", "0", "0", "0", "1">>>>,
      <<Some(<<"-", "D">>), <<"0", "0", "0", "1", "1", "1", "1">>>>,
      <<Some(<<"-", "A">>), <<"0", "1", "1", "0", "0", "1", "1">>>>,
      <<Some(<<"-", "M">>), <<"1", "1", "1", "0", "0", "1", "1">>>>,
      <<Some(<<"D", "+", "1">>), <<"0", "0", "1", "1", "1", "1", "1">>>>,
      <<Some(<<"A", "+", "1">>), <<"0", "1", "1", "0", "1", "1", "1">>>>,
      <<Some(<<"M", "+", "1">>), <<"1", "1", "1", "0", "1", "1", "1">>>>,
      <<Some(<<"D", "-", "1">>), <<"0", "0", "0", "1", "1", "1", "0">>>>,
      <<Some(<<"A", "-", "1">>), <<"0", "1", "1", "0", "0", "1", "0">>>>,
      <<Some(<<"M", "-", "1">>), <<"1", "1", "1", "0", "0", "1", "0">>>>,
      <<Some(<<"D", "+", "A">>), <<"0", "0", "0", "0", "0", "1", "0">>>>,
      <<Some(<<"D", "+", "M">>), <<"1", "0", "0", "0", "0", "1", "0">>>>,
      <<Some(<<"D", "-", "A">>), <<"0", "0", "1", "0", "0", "1", "1">>>>,
      <<Some(<<"D", "-", "M">>), <<"1", "0", "1", "0", "0", "1", "1">>>>,
      <<Some(<<"A", "-", "D">>), <<"0", "0", "0", "0", "1", "1", "1">>>>,
      <<Some(<<"M", "-", "D">>), <<"1", "0", "0", "0", "1", "1", "1">>>>,
      <<Some(<<"D", "&", "A">>), <<"0", "0", "0", "0", "0", "0", "0">>>>,
      <<Some(<<"D", "&", "M">>), <<"1", "0", "0", "0", "0", "0", "0">>>>,
      <<Some(<<"D", "|", "A">>), <<"0", "0", "1", "0", "1", "0", "1">>>>,
      <<Some(<<"D", "|", "M">>), <<"1", "0", "1", "0", "1", "0", "1">>>>>>

\* HashMap::get on a fixed table
MapGet(map, key) ==
    IF \E k \in 1..Len(map) : map[k][1] = key
    THEN Some((map[CHOOSE k \in 1..Len(map) : map[k][1] = key])[2])
    ELSE None

Digits == <<"0", "1", "2", "3", "4", "5", "6", "7", "8", "9">>

DigitValue(c) == (CHOOSE d \in 1..10 : Digits[d] = c) - 1

\* The largest u16
U16Max == 65535

RECURSIVE ParseDigits(_, _)
ParseDigits(s, acc) ==
    IF s = <<>> THEN acc ELSE ParseDigits(Tail(s), acc * 10 + DigitValue(Head(s)))

\* str::parse::<u16>: Some(n), or None on an empty string, a character that
\* is not a digit (after one optional '+'), or a value above u16::MAX
parse_u16(s) ==
    LET body == IF s # <<>> /\ Head(s) = "+" THEN Tail(s) ELSE s
    IN  IF body = <<>> \/ \E k \in 1..Len(body) : ~is_numeric(body[k])
        THEN None
        ELSE IF ParseDigits(body, 0) > U16Max
             THEN None
             ELSE Some(ParseDigits(body, 0))

RECURSIVE NatToString(_)
NatToString(n) ==
    IF n < 10 THEN <<Digits[n + 1]>> ELSE Append(NatToString(n \div 10), Digits[(n % 10) + 1])

\* isize::to_string
to_string(n) == IF n < 0 THEN <<"-">> \o NatToString(-n) ELSE NatToString(n)

\* format!("{:b}", n)
RECURSIVE format_b(_)
format_b(n) ==
    IF n < 2 THEN <<Digits[n + 1]>> ELSE Append(format_b(n \div 2), Digits[(n % 2) + 1])

\* Width of a machine word
WordWidth == 16

\* pad_word with the loop one iteration short
pad_word_one_short(addr_as_binstr) ==
    [k \in 1..(WordWidth - Len(addr_as_binstr) - 1) |-> "0"] \o addr_as_binstr

\* for _ in 0..(16 - addr_as_binstr.len()) { final_addr_binstr.insert(0, '0') }
pad_word(addr_as_binstr) ==
    [k \in 1..(WordWidth - Len(addr_as_binstr)) |-> "0"] \o addr_as_binstr

\* HashMap::get on the symbol table
TableGet(table, key) == IF key \in DOMAIN table THEN Some(table[key]) ELSE None

\* The A-instruction branch of translate
translate_address(instruction, table) ==
    IF instruction.symbol = None \/ Unwrap(instruction.symbol) = <<>>
    THEN Panic
    ELSE IF is_numeric(Head(Unwrap(instruction.symbol)))
         THEN LET n == parse_u16(Unwrap(instruction.symbol))
              IN  IF n = None THEN Panic ELSE Ok(pad_word(format_b(Unwrap(n))))
         ELSE LET symbol_from_table == TableGet(table, instruction.symbol)
              IN  IF symbol_from_table = None
                  THEN Panic
                  ELSE LET n == parse_u16(Unwrap(symbol_from_table))
                       IN  IF n = None
                           THEN Panic
                           ELSE Ok(pad_word(format_b(Unwrap(n))))

\* translate_compute refusing a computation without destination and jump
translate_compute_rejecting_bare(instruction) ==
    LET comp_bits == MapGet(comp_map, instruction.comp)
        dest_bits == MapGet(dest_map, instruction.dest)
        jump_bits == MapGet(jump_map, instruction.jump)
    IN  IF \/ comp_bits = None \/ dest_bits = None \/ jump_bits = None
           \/ (instruction.dest = None /\ instruction.jump = None)
        THEN Panic
        ELSE Ok(<<"1", "1", "1">> \o Unwrap(comp_bits) \o Unwrap(dest_bits)
                  \o Unwrap(jump_bits))

\* The C-instruction branch of translate
translate_compute(instruction) ==
    LET comp_bits == MapGet(comp_map, instruction.comp)
        dest_bits == MapGet(dest_map, instruction.dest)
        jump_bits == MapGet(jump_map, instruction.jump)
    IN  IF comp_bits = None \/ dest_bits = None \/ jump_bits = None
        THEN Panic
        ELSE Ok(<<"1", "1", "1">> \o Unwrap(comp_bits) \o Unwrap(dest_bits)
                  \o Unwrap(jump_bits))

translate(instruction, table) ==
    IF instruction.command_type = "ACommand"
    THEN translate_address(instruction, table)
    ELSE translate_compute(instruction)

----------------------------------------------------------------------------
(* parse_each_line                                                         *)

ICommandLine == ParsedLine("ICommand", None, None, None, None, 0)

\* The loop of parse_each_line from line k on; line_number and parsed are
\* the locals line_number and parsed_lines.
RECURSIVE ParseLines(_, _, _, _, _)
ParseLines(lines, k, line_number, parsed, oc) ==
    IF k > Len(lines)
    THEN Ok(parsed)
    ELSE LET pre == preprocess_line(lines[k], oc)
         IN  IF pre = Panic
             THEN Panic
             ELSE IF Unwrap(pre) = None
                  THEN ParseLines(lines, k + 1, line_number,
                                  Append(parsed, ICommandLine), oc)
                  ELSE LET r == parse_line(Unwrap(Unwrap(pre)), line_number + 1, oc)
                       IN  IF r = Panic
                           THEN Panic
                           ELSE ParseLines(lines, k + 1,
                                    IF Unwrap(r).command_type = "LCommand"
                                    THEN line_number
                                    ELSE line_number + 1,
                                    Append(parsed, Unwrap(r)), oc)

parse_each_line(lines, oc) == ParseLines(lines, 1, -1, <<>>, oc)

----------------------------------------------------------------------------
(* populate_symbol_table, first_pass                                       *)

\* HashMap::insert
Insert(table, key, value) ==
    [k \in (DOMAIN table) \cup {key} |-> IF k = key THEN value ELSE table[k]]

\* populate_symbol_table giving a label the next RAM address, as a variable
populate_symbol_table_label_as_variable(label, table, last_address) ==
    IF label.symbol \in DOMAIN table
    THEN <<table, last_address>>
    ELSE <<Insert(table, label.symbol, to_string(last_address + 1)),
           last_address + 1>>

\* populate_symbol_table without the test for a name that is bound already
populate_symbol_table_always_insert(label, table, last_address) ==
    IF label.command_type = "LCommand"
    THEN <<Insert(table, label.symbol, to_string(label.line_number)),
           last_address>>
    ELSE <<Insert(table, label.symbol, to_string(last_address + 1)),
           last_address + 1>>

\* populate_symbol_table returning last_address for a new variable too
populate_symbol_table_no_advance(label, table, last_address) ==
    IF label.symbol \in DOMAIN table /\ label.command_type # "LCommand"
    THEN <<table, last_address>>
    ELSE IF label.command_type = "LCommand"
         THEN <<Insert(table, label.symbol, to_string(label.line_number)),
                last_address>>
         ELSE <<Insert(table, label.symbol, to_string(last_address + 1)),
                last_address>>

populate_symbol_table(label, table, last_address) ==
    IF label.symbol \in DOMAIN table /\ label.command_type # "LCommand"
    THEN <<table, last_address>>
    ELSE IF label.command_type = "LCommand"
         THEN <<Insert(table, label.symbol, to_string(label.line_number)),
                last_address>>
         ELSE <<Insert(table, label.symbol, to_string(last_address + 1)),
                last_address + 1>>

\* The first loop of first_pass: the (XXX) symbols
RECURSIVE first_pass_labels(_, _, _, _)
first_pass_labels(lines, k, table, last) ==
    IF k > Len(lines)
    THEN <<table, last>>
    ELSE IF lines[k].command_type # "ICommand" /\ lines[k].command_type = "LCommand"
         THEN LET r == populate_symbol_table(lines[k], table, last)
              IN  first_pass_labels(lines, k + 1, r[1], r[2])
         ELSE first_pass_labels(lines, k + 1, table, last)

\* The second loop of first_pass: the A commands that are not an address
RECURSIVE first_pass_variables(_, _, _, _)
first_pass_variables(lines, k, table, last) ==
    IF k > Len(lines)
    THEN Ok(<<table, last>>)
    ELSE IF lines[k].command_type # "ICommand" /\ lines[k].command_type = "ACommand"
         THEN IF lines[k].symbol = None \/ Unwrap(lines[k].symbol) = <<>>
              THEN Panic
              ELSE IF ~is_numeric(Head(Unwrap(lines[k].symbol)))
                   THEN LET r == populate_symbol_table(lines[k], table, last)
                        IN  first_pass_variables(lines, k + 1, r[1], r[2])
                   ELSE first_pass_variables(lines, k + 1, table, last)
         ELSE first_pass_variables(lines, k + 1, table, last)

\* let mut last_ram_address: isize = 15
InitialLastRamAddress == 15

----------------------------------------------------------------------------
(* second_pass, write_binary_to_file                                       *)

RECURSIVE SecondPassLoop(_, _, _, _)
SecondPassLoop(lines, k, table, translated) ==
    IF k > Len(lines)
    THEN Ok(translated)
    ELSE IF lines[k].command_type # "ICommand" /\ lines[k].command_type # "LCommand"
         THEN LET w == translate(lines[k], table)
              IN  IF w = Panic
                  THEN Panic
                  ELSE IF translated = <<>>
                       THEN SecondPassLoop(lines, k + 1, table,
                                           translated \o Unwrap(w))
                       ELSE SecondPassLoop(lines, k + 1, table,
                                           translated \o <<"\n">> \o Unwrap(w))
         ELSE SecondPassLoop(lines, k + 1, table, translated)

second_pass(lines, table) == SecondPassLoop(lines, 1, table, <<>>)

\* str::lines: the text split at each newline; a final newline opens no
\* further line
RECURSIVE Lines(_, _)
Lines(text, cur) ==
    IF text = <<>>
    THEN IF cur = <<>> THEN <<>> ELSE <<cur>>
    ELSE IF Head(text) = "\n"
         THEN <<cur>> \o Lines(Tail(text), <<>>)
         ELSE Lines(Tail(text), Append(cur, Head(text)))

\* The loop of write_binary_to_file: the bytes written to the file
RECURSIVE WriteLines(_, _)
WriteLines(ls, k) ==
    IF k > Len(ls) THEN <<>> ELSE (ls[k] \o <<"\n">>) \o WriteLines(ls, k + 1)

\* write_binary_to_file writing the text as it is, in one piece
write_binary_to_file_in_one_piece(to_write) == to_write

write_binary_to_file(to_write) == WriteLines(Lines(to_write, <<>>), 1)

----------------------------------------------------------------------------
(* main                                                                    *)

\* The pre-set symbols
PresetSymbolTable ==
    (  Some(<<"S", "P">>) :> <<"0">> @@
       Some(<<"R", "0">>) :> <<"0">> @@
       Some(<<"L", "C", "L">>) :> <<"1">> @@
       Some(<<"R", "1">>) :> <<"1">> @@
       Some(<<"A", "R", "G">>) :> <<"2">> @@
       Some(<<"R", "2">>) :> <<"2">> @@
       Some(<<"T", "H", "I", "S">>) :> <<"3">> @@
       Some(<<"R", "3">>) :> <<"3">> @@
       Some(<<"T", "H", "A", "T">>) :> <<"4">> @@
       Some(<<"R", "4">>) :> <<"4">> @@
       Some(<<"R", "5">>) :> <<"5">> @@
       Some(<<"R", "6">>) :> <<"6">> @@
       Some(<<"R", "7">>) :> <<"7">> @@
       Some(<<"R", "8">>) :> <<"8">> @@
       Some(<<"R", "9">>) :> <<"9">> @@
       Some(<<"R", "1", "0">>) :> <<"1", "0">> @@
       Some(<<"R", "1", "1">>) :> <<"1", "1">> @@
       Some(<<"R", "1", "2">>) :> <<"1", "2">> @@
       Some(<<"R", "1", "3">>) :> <<"1", "3">> @@
       Some(<<"R", "1", "4">>) :> <<"1", "4">> @@
       Some(<<"R", "1", "5">>) :> <<"1", "5">> @@
       Some(<<"S", "C", "R", "E", "E", "N">>) :> <<"1", "6", "3", "8", "4">> @@
       Some(<<"K", "B", "D">>) :> <<"2", "4", "5", "7", "6">>)

\* The source lines the programs of the model are made of: blank, comment,
\* label reference, label, two variables, a pre-set symbol, a literal, a
\* computation with a destination, a bare register and a bare '@'.
SourceLines ==
    {<<>>,
     <<"/", "/", "c">>,
     <<"@", "L">>,
     <<"(", "L", ")">>,
     <<"@", "i">>,
     <<"@", "j">>,
     <<"@", "R", "1">>,
     <<"@", "2">>,
     <<"D", "=", "A">>,
     <<"D">>,
     <<"@">>}

\* Longest program of the model, in lines
MaxLines == 4

RECURSIVE SeqsUpTo(_, _)
SeqsUpTo(S, n) ==
    IF n = 0
    THEN {<<>>}
    ELSE LET shorter == SeqsUpTo(S, n - 1)
         IN  shorter \cup {Append(q, x) : q \in shorter, x \in S}

Programs == SeqsUpTo(SourceLines, MaxLines)

MainIdle ==
    /\ parsed_lines = <<>>
    /\ symbol_table = PresetSymbolTable
    /\ last_ram_address = InitialLastRamAddress
    /\ translated_contents = <<>>
    /\ output_file = None

HarnessOff ==
    /\ fn_pc = "off"
    /\ fn_in = <<>>
    /\ fn_out = <<>>
    /\ fn_out2 = <<>>

\* main after get_file_contents has returned the source
Init ==
    /\ contents \in Programs
    /\ pc = "start"
    /\ MainIdle
    /\ overflow_checks \in BOOLEAN
    /\ HarnessOff

\* let parsed_lines = parse_each_line(contents.to_owned());
MainParseEachLine ==
    /\ pc = "start"
    /\ LET r == parse_each_line(contents, overflow_checks)
       IN  IF r = Panic
           THEN /\ pc' = "panic_parse"
                /\ UNCHANGED parsed_lines
           ELSE /\ pc' = "parsed"
                /\ parsed_lines' = Unwrap(r)
    /\ UNCHANGED <<contents, symbol_table, last_ram_address,
                   translated_contents, output_file, overflow_checks>>
    /\ UNCHANGED fn_vars

\* first_pass, its first loop
MainFirstPassLabels ==
    /\ pc = "parsed"
    /\ LET r == first_pass_labels(parsed_lines, 1, symbol_table, last_ram_address)
       IN  /\ symbol_table' = r[1]
           /\ last_ram_address' = r[2]
    /\ pc' = "labels"
    /\ UNCHANGED <<contents, parsed_lines, translated_contents, output_file,
                   overflow_checks>>
    /\ UNCHANGED fn_vars

\* first_pass, its second loop
MainFirstPassVariables ==
    /\ pc = "labels"
    /\ LET r == first_pass_variables(parsed_lines, 1, symbol_table, last_ram_address)
       IN  IF r = Panic
           THEN /\ pc' = "panic_symbols"
                /\ UNCHANGED <<symbol_table, last_ram_address>>
           ELSE /\ pc' = "symbols"
                /\ symbol_table' = Unwrap(r)[1]
                /\ last_ram_address' = Unwrap(r)[2]
    /\ UNCHANGED <<contents, parsed_lines, translated_contents, output_file,
                   overflow_checks>>
    /\ UNCHANGED fn_vars

\* let translated_contents = second_pass(...)
MainSecondPass ==
    /\ pc = "symbols"
    /\ LET r == second_pass(parsed_lines, symbol_table)
       IN  IF r = Panic
           THEN /\ pc' = "panic_encode"
                /\ UNCHANGED translated_contents
           ELSE /\ pc' = "translated"
                /\ translated_contents' = Unwrap(r)
    /\ UNCHANGED <<contents, parsed_lines, symbol_table, last_ram_address,
                   output_file, overflow_checks>>
    /\ UNCHANGED fn_vars

\* The file created before second_pass has run
MainCreateFileEarly ==
    /\ pc = "symbols"
    /\ output_file = None
    /\ output_file' = Some(<<>>)
    /\ UNCHANGED <<contents, pc, parsed_lines, symbol_table, last_ram_address,
                   translated_contents, overflow_checks>>
    /\ UNCHANGED fn_vars

\* write_binary_to_file: File::create(filename)? succeeds
MainCreateFile ==
    /\ pc = "translated"
    /\ pc' = "created"
    /\ output_file' = Some(<<>>)
    /\ UNCHANGED <<contents, parsed_lines, symbol_table, last_ram_address,
                   translated_contents, overflow_checks>>
    /\ UNCHANGED fn_vars

\* write_binary_to_file: File::create(filename)? fails
MainCreateFails ==
    /\ pc = "translated"
    /\ pc' = "panic_io"
    /\ UNCHANGED <<contents, parsed_lines, symbol_table, last_ram_address,
                   translated_contents, output_file, overflow_checks>>
    /\ UNCHANGED fn_vars

\* write_binary_to_file: every write succeeds
MainWriteFile ==
    /\ pc = "created"
    /\ pc' = "done"
    /\ output_file' = Some(write_binary_to_file(translated_contents))
    /\ UNCHANGED <<contents, parsed_lines, symbol_table, last_ram_address,
                   translated_contents, overflow_checks>>
    /\ UNCHANGED fn_vars

\* write_binary_to_file: the write of line k + 1 fails, after k lines
MainWriteFails ==
    /\ pc = "created"
    /\ \E k \in 0..(Len(Lines(translated_contents, <<>>)) - 1) :
          output_file' = Some(WriteLines(SubSeq(Lines(translated_contents, <<>>), 1, k), 1))
    /\ pc' = "panic_io"
    /\ UNCHANGED <<contents, parsed_lines, symbol_table, last_ram_address,
                   translated_contents, overflow_checks>>
    /\ UNCHANGED fn_vars

Next ==
    \/ MainParseEachLine
    \/ MainFirstPassLabels
    \/ MainFirstPassVariables
    \/ MainSecondPass
    \/ MainCreateFile
    \/ MainCreateFails
    \/ MainWriteFile
    \/ MainWriteFails

Spec == Init /\ [][Next]_vars

----------------------------------------------------------------------------
(* preprocess_line on its own: every raw line over RawAlphabet, once and   *)
(* then again on its own output                                            *)

RawAlphabet == {"D", "=", "A", " ", "/"}

\* Longest raw line of the model, in characters
MaxRawLen == 6

RawLines == SeqsUpTo(RawAlphabet, MaxRawLen)

MainOff ==
    /\ contents = <<>>
    /\ pc = "off"
    /\ MainIdle

InitPreprocess ==
    /\ MainOff
    /\ overflow_checks \in BOOLEAN
    /\ fn_pc = "ready"
    /\ fn_in \in RawLines
    /\ fn_out = <<>>
    /\ fn_out2 = <<>>

CallPreprocess ==
    /\ fn_pc = "ready"
    /\ fn_out' = preprocess_line(fn_in, overflow_checks)
    /\ fn_pc' = "once"
    /\ UNCHANGED <<fn_in, fn_out2, overflow_checks>>
    /\ UNCHANGED main_vars

CallPreprocessAgain ==
    /\ fn_pc = "once"
    /\ fn_out # Panic
    /\ Unwrap(fn_out) # None
    /\ fn_out2' = preprocess_line(Unwrap(Unwrap(fn_out)), overflow_checks)
    /\ fn_pc' = "twice"
    /\ UNCHANGED <<fn_in, fn_out, overflow_checks>>
    /\ UNCHANGED main_vars

NextPreprocess ==
    \/ CallPreprocess
    \/ CallPreprocessAgain

SpecPreprocess == InitPreprocess /\ [][NextPreprocess]_vars

----------------------------------------------------------------------------
(* parse_line and translate on every line of the form dest=comp;jump       *)

Keys(map) == {map[k][1] : k \in 1..Len(map)}

\* dest=comp;jump, with "dest=" left out for dest None and ";jump" for jump None
Compact(d, c, j) ==
    (IF d = None THEN <<>> ELSE Unwrap(d) \o <<"=">>)
    \o Unwrap(c)
    \o (IF j = None THEN <<>> ELSE <<";">> \o Unwrap(j))

InitCompute ==
    /\ MainOff
    /\ overflow_checks \in BOOLEAN
    /\ fn_pc = "ready"
    /\ fn_in \in [dest : Keys(dest_map), comp : Keys(comp_map), jump : Keys(jump_map)]
    /\ fn_out = <<>>
    /\ fn_out2 = <<>>

CallParseCompute ==
    /\ fn_pc = "ready"
    /\ fn_out' = parse_line(Compact(fn_in.dest, fn_in.comp, fn_in.jump), 0, overflow_checks)
    /\ fn_pc' = "once"
    /\ UNCHANGED <<fn_in, fn_out2, overflow_checks>>
    /\ UNCHANGED main_vars

CallTranslate ==
    /\ fn_pc = "once"
    /\ fn_out # Panic
    /\ fn_out2' = translate(Unwrap(fn_out), PresetSymbolTable)
    /\ fn_pc' = "twice"
    /\ UNCHANGED <<fn_in, fn_out, overflow_checks>>
    /\ UNCHANGED main_vars

NextCompute ==
    \/ CallParseCompute
    \/ CallTranslate

SpecCompute == InitCompute /\ [][NextCompute]_vars

----------------------------------------------------------------------------
(* parse_line and translate on every line @n, n a decimal literal          *)

\* Largest literal of the model; it lies above u16::MAX
MaxLiteral == 65540

InitAddress ==
    /\ MainOff
    /\ overflow_checks \in BOOLEAN
    /\ fn_pc = "ready"
    /\ fn_in \in 0..MaxLiteral
    /\ fn_out = <<>>
    /\ fn_out2 = <<>>

CallParseAddress ==
    /\ fn_pc = "ready"
    /\ fn_out' = parse_line(<<"@">> \o to_string(fn_in), 0, overflow_checks)
    /\ fn_pc' = "once"
    /\ UNCHANGED <<fn_in, fn_out2, overflow_checks>>
    /\ UNCHANGED main_vars

CallTranslateAddress ==
    /\ fn_pc = "once"
    /\ fn_out # Panic
    /\ fn_out2' = translate(Unwrap(fn_out), PresetSymbolTable)
    /\ fn_pc' = "twice"
    /\ UNCHANGED <<fn_in, fn_out, overflow_checks>>
    /\ UNCHANGED main_vars

NextAddress ==
    \/ CallParseAddress
    \/ CallTranslateAddress

SpecAddress == InitAddress /\ [][NextAddress]_vars

----------------------------------------------------------------------------
(* Properties of translate on literals (SpecAddress)                       *)

RECURSIVE BinaryValue(_, _)
BinaryValue(w, acc) ==
    IF w = <<>> THEN acc ELSE BinaryValue(Tail(w), 2 * acc + (IF Head(w) = "1" THEN 1 ELSE 0))

IsWord(w) == Len(w) = 16 /\ \A k \in 1..Len(w) : w[k] \in {"0", "1"}

\* C4: for an Address instruction whose symbol is the decimal literal of n,
\* 0 <= n <= 32767, translate returns exactly 16 characters of '0'/'1' that
\* are the binary representation of n left-padded with '0', so the first
\* character is '0'.
C4_LiteralWord ==
    (fn_pc # "ready" /\ fn_in <= 32767) =>
        /\ fn_out # Panic
        /\ fn_pc = "twice" =>
              /\ fn_out2 # Panic
              /\ IsWord(Unwrap(fn_out2))
              /\ BinaryValue(Unwrap(fn_out2), 0) = fn_in
              /\ Unwrap(fn_out2)[1] = "0"

C4_Witness ==
    /\ fn_pc = "twice"
    /\ fn_in = 32767
    /\ fn_out2 = Ok(<<"0", "1", "1", "1", "1", "1", "1", "1", "1", "1", "1", "1", "1", "1", "1", "1">>)

\* C5: whenever translate returns a word for an Address instruction, the
\* first character of the word is '0'.
C5_LeadingBitZero ==
    (fn_pc = "twice" /\ fn_out2 # Panic) => Unwrap(fn_out2)[1] = "0"

----------------------------------------------------------------------------
(* Properties of preprocess_line (SpecPreprocess)                          *)

\* C6: preprocess_line is idempotent: if preprocess_line(line) returns
\* Some(s) then preprocess_line(s) returns Some(s).
C6_Idempotent ==
    fn_pc = "twice" => fn_out2 = fn_out

\* Zero-based index of the first "//" of s
MarkerIndex(s) ==
    (CHOOSE k \in 1..(Len(s) - 1) :
        /\ s[k] = "/" /\ s[k + 1] = "/"
        /\ \A j \in 1..(k - 1) : ~(s[j] = "/" /\ s[j + 1] = "/")) - 1

\* C10: for a raw line that, trimmed, does not start with "//" but contains
\* it later, preprocess_line returns the text in front of the marker with
\* all whitespace removed, with or without whitespace in front of the
\* marker; no character of the instruction is lost.
C10_MidLineComment ==
    (/\ fn_pc = "once"
     /\ ContainsMarker(trim(fn_in))
     /\ ~StartsWithMarker(trim(fn_in))) =>
        fn_out = Ok(Some(split_whitespace(Take(trim(fn_in), MarkerIndex(trim(fn_in))))))

----------------------------------------------------------------------------
(* Properties of parse_line and translate on dest=comp;jump (SpecCompute)  *)

\* C9: for dest=comp;jump with dest and jump each legal or absent and at
\* least one of them present, parse_line returns a CCommand whose dest,
\* comp and jump are exactly the three fields of the template.
C9_TemplateFields ==
    (fn_pc = "once" /\ (fn_in.dest # None \/ fn_in.jump # None)) =>
        fn_out = Ok(ParsedLine("CCommand", None, fn_in.dest, fn_in.comp, fn_in.jump, 0))

\* C7, as claimed: a Compute line with neither a destination nor a jump is
\* rejected: parse_line or translate panics and no word is emitted for it.
C7_BareRejected ==
    (fn_pc = "twice" /\ fn_in.dest = None /\ fn_in.jump = None) => fn_out2 = Panic

\* C7, amended: a Compute line with neither a destination nor a jump is
\* parsed into a CCommand with no dest and no jump; when its computation
\* has an operator (two or three characters, as D+1) the computation is
\* captured and translate emits 111 + its comp bits + 000 + 000; when it is
\* a single character (0, 1, D, A, M) no computation is captured and
\* translate panics.
C7_BareAccepted ==
    (fn_in.dest = None /\ fn_in.jump = None) =>
        /\ fn_pc = "once" =>
              fn_out = Ok(ParsedLine("CCommand", None, None,
                                     IF Len(Unwrap(fn_in.comp)) = 1 THEN None ELSE fn_in.comp,
                                     None, 0))
        /\ fn_pc = "twice" =>
              fn_out2 = IF Len(Unwrap(fn_in.comp)) = 1
                        THEN Panic
                        ELSE Ok(<<"1", "1", "1">>
                                \o Unwrap(MapGet(comp_map, fn_in.comp))
                                \o <<"0", "0", "0", "0", "0", "0">>)

C7_Witness ==
    /\ fn_pc = "twice"
    /\ fn_in = [dest |-> None, comp |-> Some(<<"D", "+", "1">>), jump |-> None]
    /\ fn_out2 = Ok(<<"1", "1", "1", "0", "0", "1", "1", "1", "1", "1", "0", "0", "0", "0", "0", "0">>)

----------------------------------------------------------------------------
(* Properties of the whole run (Spec).  The lines of SourceLines carry no  *)
(* whitespace and no trailing comment, so the kind of a line can be read   *)
(* off its text.                                                           *)

\* An Address or Compute line: not blank, not a comment, not a label
IsInstructionLine(raw) == raw # <<>> /\ ~StartsWithMarker(raw) /\ raw[1] # "("

LabelLine(name) == <<"(">> \o name \o <<")">>

ReferenceLine(name) == <<"@">> \o name

\* Number of Address/Compute lines in front of line k
InstructionsBefore(k) ==
    Cardinality({m \in 1..(k - 1) : IsInstructionLine(contents[m])})

\* The names used by the Address lines
ReferencedNames ==
    {Skip(contents[i], 1) :
        i \in {m \in 1..Len(contents) : Len(contents[m]) >= 2 /\ contents[m][1] = "@"}}

DefinitionsOf(name) == {k \in 1..Len(contents) : contents[k] = LabelLine(name)}

\* n as 16 binary digits
Bin16(n) == [k \in 1..16 |-> IF (n \div (2 ^ (16 - k))) % 2 = 1 THEN "1" ELSE "0"]

\* C1: when a label name whose first character is not a digit is defined by
\* exactly one Label line, every Address instruction @name, in front of or
\* behind the definition, is encoded after first_pass as the 16-bit binary
\* of the number of Address/Compute instructions in front of the definition.
C1_LabelResolves ==
    pc = "symbols" =>
        \A name \in ReferencedNames :
            (~is_numeric(name[1]) /\ Cardinality(DefinitionsOf(name)) = 1) =>
                \A i \in 1..Len(contents) :
                    contents[i] = ReferenceLine(name) =>
                        translate(parsed_lines[i], symbol_table)
                            = Ok(Bin16(InstructionsBefore(CHOOSE k \in DefinitionsOf(name) : TRUE)))

C1_Witness ==
    /\ pc = "symbols"
    /\ contents = <<<<"@", "L">>, <<"(", "L", ")">>, <<"@", "L">>>>
    /\ symbol_table[Some(<<"L">>)] = <<"1">>

\* The names that first_pass has to allocate: not numeric, not pre-set, not
\* defined by a Label line
VariableNames ==
    {n \in ReferencedNames :
        /\ ~is_numeric(n[1])
        /\ Some(n) \notin DOMAIN PresetSymbolTable
        /\ DefinitionsOf(n) = {}}

FirstOccurrence(n) ==
    CHOOSE i \in 1..Len(contents) :
        /\ contents[i] = ReferenceLine(n)
        /\ \A j \in 1..(i - 1) : contents[j] # ReferenceLine(n)

\* Position of n among the variables, by first occurrence
Rank(n) ==
    Cardinality({m \in VariableNames : FirstOccurrence(m) < FirstOccurrence(n)}) + 1

\* C2: after first_pass the k-th distinct variable, in order of first
\* occurrence, is bound to 16 + (k - 1), so that no two variables share an
\* address and none is skipped; the Label lines of the first loop leave the
\* free-RAM cursor where it started.
C2_VariableAllocation ==
    /\ pc = "labels" => last_ram_address = 15
    /\ pc = "symbols" =>
          /\ \A n \in VariableNames :
                /\ Some(n) \in DOMAIN symbol_table
                /\ parse_u16(symbol_table[Some(n)]) = Some(16 + (Rank(n) - 1))
          /\ last_ram_address = 15 + Cardinality(VariableNames)

C2_Witness ==
    /\ pc = "symbols"
    /\ contents = <<<<"@", "j">>, <<"@", "L">>, <<"@", "j">>, <<"@", "i">>>>
    /\ symbol_table[Some(<<"j">>)] = <<"1", "6">>
    /\ symbol_table[Some(<<"L">>)] = <<"1", "7">>
    /\ symbol_table[Some(<<"i">>)] = <<"1", "8">>

\* Index of the i-th Address/Compute line
InstructionLine(i) ==
    CHOOSE m \in 1..Len(contents) :
        IsInstructionLine(contents[m]) /\ InstructionsBefore(m) = i - 1

InstructionCount == InstructionsBefore(Len(contents) + 1)

\* C3: when the run succeeds the output file holds one line per
\* Address/Compute instruction and none for Label, blank or comment lines;
\* line i is the word translate gives for the i-th instruction, 16
\* characters of '0'/'1' followed by one newline, and nothing follows the
\* last newline.
C3_OutputLines ==
    pc = "done" =>
        /\ output_file # None
        /\ Len(Unwrap(output_file)) = 17 * InstructionCount
        /\ \A i \in 1..InstructionCount :
              /\ SubSeq(Unwrap(output_file), 17 * (i - 1) + 1, 17 * i - 1)
                     = Unwrap(translate(parsed_lines[InstructionLine(i)], symbol_table))
              /\ IsWord(SubSeq(Unwrap(output_file), 17 * (i - 1) + 1, 17 * i - 1))
              /\ Unwrap(output_file)[17 * i] = "\n"

C3_Witness ==
    /\ pc = "done"
    /\ contents = <<<<"/", "/", "c">>, <<"(", "L", ")">>, <<"@", "2">>, <<"D", "=", "A">>>>
    /\ output_file = Some(<<"0", "0", "0", "0", "0", "0", "0", "0", "0", "0", "0", "0", "0", "0", "1", "0">> \o <<"\n">>
                          \o <<"1", "1", "1", "0", "1", "1", "0", "0", "0", "0", "0", "1", "0", "0", "0", "0">> \o <<"\n">>)

\* C8: the output file is created only after every line has been parsed,
\* the symbol table built and every instruction encoded; a run aborted by a
\* parse or encode panic has created no output file.
C8_AllOrNothing ==
    /\ pc \in {"panic_parse", "panic_symbols", "panic_encode"} => output_file = None
    /\ output_file # None =>
          /\ pc \in {"created", "done", "panic_io"}
          /\ parse_each_line(contents, overflow_checks) = Ok(parsed_lines)
          /\ second_pass(parsed_lines, symbol_table) = Ok(translated_contents)

C8_Witness ==
    /\ pc = "panic_encode"
    /\ \E k \in 1..Len(contents) : contents[k] = <<"D">>
    /\ output_file = None

----------------------------------------------------------------------------
(* first_pass call by call: fn_in holds the parsed lines, fn_out the pair  *)
(* <<symbol_table, last_ram_address>>, fn_out2 the index of the line the   *)
(* running loop looks at next, fn_pc the loop that is running              *)

\* The lines of the programs given to first_pass here: two labels, one of
\* them named like a pre-set symbol, references to both, a variable and a
\* computation.  Each parses into an instruction that carries a symbol or
\* is a CCommand, so the unwraps of the second loop do not panic.
FirstPassLines ==
    {<<"(", "X", ")">>,
     <<"(", "R", "1", ")">>,
     <<"@", "X">>,
     <<"@", "R", "1">>,
     <<"@", "v">>,
     <<"D", "=", "A">>}

\* Longest program given to first_pass here, in lines
MaxFirstPassLines == 4

InitFirstPass ==
    /\ MainOff
    /\ overflow_checks \in BOOLEAN
    /\ fn_pc = "labels"
    /\ fn_in \in {Unwrap(parse_each_line(p, overflow_checks)) :
                     p \in SeqsUpTo(FirstPassLines, MaxFirstPassLines)}
    /\ fn_out = <<PresetSymbolTable, InitialLastRamAddress>>
    /\ fn_out2 = 1

\* The first loop looks at an LCommand: populate_symbol_table is called
FirstLoopCall ==
    /\ fn_pc = "labels"
    /\ fn_out2 <= Len(fn_in)
    /\ fn_in[fn_out2].command_type # "ICommand"
    /\ fn_in[fn_out2].command_type = "LCommand"
    /\ fn_out' = populate_symbol_table(fn_in[fn_out2], fn_out[1], fn_out[2])
    /\ fn_out2' = fn_out2 + 1
    /\ UNCHANGED <<fn_pc, fn_in, overflow_checks>>
    /\ UNCHANGED main_vars

\* The first loop looks at any other line
FirstLoopSkip ==
    /\ fn_pc = "labels"
    /\ fn_out2 <= Len(fn_in)
    /\ fn_in[fn_out2].command_type # "LCommand"
    /\ fn_out2' = fn_out2 + 1
    /\ UNCHANGED <<fn_pc, fn_in, fn_out, overflow_checks>>
    /\ UNCHANGED main_vars

\* The first loop is over, the second begins
FirstLoopEnd ==
    /\ fn_pc = "labels"
    /\ fn_out2 > Len(fn_in)
    /\ fn_pc' = "variables"
    /\ fn_out2' = 1
    /\ UNCHANGED <<fn_in, fn_out, overflow_checks>>
    /\ UNCHANGED main_vars

\* The line is an ACommand whose symbol does not start with a digit
IsVariableReference(parsed_line) ==
    /\ parsed_line.command_type # "ICommand"
    /\ parsed_line.command_type = "ACommand"
    /\ ~is_numeric(Head(Unwrap(parsed_line.symbol)))

\* The second loop looks at such an ACommand: populate_symbol_table is called
SecondLoopCall ==
    /\ fn_pc = "variables"
    /\ fn_out2 <= Len(fn_in)
    /\ IsVariableReference(fn_in[fn_out2])
    /\ fn_out' = populate_symbol_table(fn_in[fn_out2], fn_out[1], fn_out[2])
    /\ fn_out2' = fn_out2 + 1
    /\ UNCHANGED <<fn_pc, fn_in, overflow_checks>>
    /\ UNCHANGED main_vars

\* The second loop looks at any other line
SecondLoopSkip ==
    /\ fn_pc = "variables"
    /\ fn_out2 <= Len(fn_in)
    /\ ~IsVariableReference(fn_in[fn_out2])
    /\ fn_out2' = fn_out2 + 1
    /\ UNCHANGED <<fn_pc, fn_in, fn_out, overflow_checks>>
    /\ UNCHANGED main_vars

\* The second loop is over: first_pass returns symbol_table
SecondLoopEnd ==
    /\ fn_pc = "variables"
    /\ fn_out2 > Len(fn_in)
    /\ fn_pc' = "returned"
    /\ UNCHANGED <<fn_in, fn_out, fn_out2, overflow_checks>>
    /\ UNCHANGED main_vars

NextFirstPass ==
    \/ FirstLoopCall
    \/ FirstLoopSkip
    \/ FirstLoopEnd
    \/ SecondLoopCall
    \/ SecondLoopSkip
    \/ SecondLoopEnd

SpecFirstPass == InitFirstPass /\ [][NextFirstPass]_vars

----------------------------------------------------------------------------
(* Properties of populate_symbol_table in first_pass (SpecFirstPass)       *)

\* populate_symbol_table is about to be called, in either loop, for an
\* instruction whose name is a key of the table already
CalledForBoundName ==
    /\ fn_pc \in {"labels", "variables"}
    /\ fn_out2 <= Len(fn_in)
    /\ \/ fn_pc = "labels" /\ fn_in[fn_out2].command_type = "LCommand"
       \/ fn_pc = "variables" /\ IsVariableReference(fn_in[fn_out2])
    /\ fn_in[fn_out2].symbol \in DOMAIN fn_out[1]

\* C11, as claimed: first binding wins: a call of populate_symbol_table, in
\* either loop of first_pass, for an instruction whose name is already a
\* key of the table returns the table and the free-RAM cursor unchanged.
C11_FirstBindingWins ==
    [][CalledForBoundName => fn_out' = fn_out]_vars

\* C11, amended: first binding wins for Address instructions only.  A call
\* in the second loop for a name that is already a key returns the table
\* and the cursor unchanged; a call in the first loop for a Label line whose
\* name is already a key binds the name to the line_number of this Label
\* line, replaces no other entry and leaves the cursor unchanged.
C11_FirstBindingWinsForAddress ==
    [][CalledForBoundName =>
          IF fn_pc = "variables"
          THEN fn_out' = fn_out
          ELSE /\ DOMAIN fn_out'[1] = DOMAIN fn_out[1]
               /\ parse_u16(fn_out'[1][fn_in[fn_out2].symbol])
                      = Some(fn_in[fn_out2].line_number)
               /\ \A key \in DOMAIN fn_out[1] :
                      key # fn_in[fn_out2].symbol => fn_out'[1][key] = fn_out[1][key]
               /\ fn_out'[2] = fn_out[2]]_vars

\* Two definitions of X with an instruction between them and a reference
\* to X behind them: the second definition has replaced the first, and the
\* reference has changed neither the table nor the cursor.
C11_Witness ==
    /\ fn_pc = "returned"
    /\ Len(fn_in) = 4
    /\ fn_in[1].command_type = "LCommand" /\ fn_in[1].symbol = Some(<<"X">>)
    /\ fn_in[2].command_type = "CCommand"
    /\ fn_in[3].command_type = "LCommand" /\ fn_in[3].symbol = Some(<<"X">>)
    /\ fn_in[4].command_type = "ACommand" /\ fn_in[4].symbol = Some(<<"X">>)
    /\ fn_out[1][Some(<<"X">>)] = <<"1">>
    /\ fn_out[2] = 15

----------------------------------------------------------------------------
(* parse_line on structurally malformed lines: a bare '@', and '(' with a  *)
(* name of one character or more behind it and no ')'                      *)

NameAlphabet == {"L", "O", "P", "1"}

\* Longest label name of the model, in characters
MaxNameLen == 3

MalformedLines ==
    {<<"@">>} \cup {<<"(">> \o name : name \in SeqsUpTo(NameAlphabet, MaxNameLen) \ {<<>>}}

InitMalformed ==
    /\ MainOff
    /\ overflow_checks \in BOOLEAN
    /\ fn_pc = "ready"
    /\ fn_in \in MalformedLines
    /\ fn_out = <<>>
    /\ fn_out2 = <<>>

CallParseMalformed ==
    /\ fn_pc = "ready"
    /\ fn_out' = parse_line(fn_in, 0, overflow_checks)
    /\ fn_pc' = "once"
    /\ UNCHANGED <<fn_in, fn_out2, overflow_checks>>
    /\ UNCHANGED main_vars

NextMalformed ==
    \/ CallParseMalformed

SpecMalformed == InitMalformed /\ [][NextMalformed]_vars

\* C12: for the line '@' with nothing behind it and for a line that starts
\* with '(' and has no ')', parse_line panics instead of returning an
\* instruction; an unmatched (NAME is never accepted as a Label definition
\* of NAME.
C12_MalformedIsFatal ==
    fn_pc = "once" =>
        /\ fn_out = Panic
        /\ fn_out # Ok(ParsedLine("LCommand", Some(Skip(fn_in, 1)), None, None, None, 0))

====
